---- MODULE Spec2Model ----
(***************************************************************************)
(* Model of wordvis.py (taxonomy sunburst chart generator, Python 2).      *)
(*                                                                         *)
(*   Tree / Node / EndNode   the weighted taxonomy tree (lines 53-86)      *)
(*   Rings                   the depth-first angular partition (221-248)   *)
(*   CircleDiagram           styles, wedges and label placement (134-218)  *)
(*   Svg                     the chart document and its serialisation      *)
(*                                                                         *)
(* A node is identified by the sequence of dictionary keys that leads to   *)
(* it from the root.  Angular sizes and offsets are Python floats in the   *)
(* program; here they are exact rationals <<numerator, denominator>>.      *)
(* Path labels are taken different from the END key '$'.                   *)
(***************************************************************************)
EXTENDS Integers, Sequences, FiniteSets, TLC

VARIABLES
    tree,          \* Tree.root and everything below: key path -> node object
    clades,        \* Tree.clades
    records,       \* the (taxonomy, count) pairs passed to Tree.add so far
    pc,            \* position of the script (lines 258-271)
    err,           \* the exception that ended the run, "" while there is none
    stack,         \* the active Rings._dfs invocations, innermost last
    calls,         \* every Rings._dfs invocation made so far, in call order
    tiers,         \* Rings.tiers
    styles,        \* Svg.styles
    content,       \* Svg.content
    ring_count,    \* CircleDiagram.ring_count
    all_clades,    \* _draw_clades: its argument, with the anchor of each entry
    clade_coords,  \* _draw_clades: the sorted candidate list
    tried,         \* _draw_clades: candidates the placement loop has passed
    occupied,      \* _draw_clades: anchors of the labels placed
    template,      \* Svg.template
    out_file       \* what Svg.save wrote, <<>> while nothing is written

vars == <<tree, clades, records, pc, err, stack, calls, tiers, styles, content,
          ring_count, all_clades, clade_coords, tried, occupied, template, out_file>>

treeVars == <<tree, clades, records>>
ringVars == <<stack, calls, tiers>>
labelVars == <<all_clades, clade_coords, tried, occupied>>
svgVars == <<styles, content, template, out_file>>

(***************************************************************************)
(* Bounds of the model.                                                    *)
(***************************************************************************)
MaxRecords == 2
MaxPathLen == 2
MaxWeight == 2

Labels == {"a", "b"}
Weights == 0 .. MaxWeight

START == "^"
END == "$"

RECURSIVE SeqsUpTo(_, _)
SeqsUpTo(S, n) ==
    IF n = 0 THEN {<<>>}
    ELSE LET shorter == SeqsUpTo(S, n - 1)
         IN shorter \cup {Append(s, x) : s \in shorter, x \in S}

Paths == SeqsUpTo(Labels, MaxPathLen)

(***************************************************************************)
(* Node, EndNode, Tree                                                     *)
(***************************************************************************)
NewNodeCountOne(clade) == [class |-> "Node", clade |-> clade, count |-> 1]

NewNode(clade) == [class |-> "Node", clade |-> clade, count |-> 0]

NewEndNode == [class |-> "EndNode", clade |-> END, count |-> 1]

\* parent.children[key] = node
SetChild(t, path, node) ==
    [q \in DOMAIN t \cup {path} |-> IF q = path THEN node ELSE t[q]]

BumpBelowRoot(t, path, count) ==
    IF path = <<>> THEN t ELSE [t EXCEPT ![path].count = @ + count]

\* parent_node.count += count
Bump(t, path, count) == [t EXCEPT ![path].count = @ + count]

RECURSIVE add_clades(_, _, _, _)
add_clades(t, parent, cl, count) ==
    LET t1 == Bump(t, parent, count)
    IN  IF Len(cl) = 0
        THEN SetChild(t1, Append(parent, END), NewEndNode)
        ELSE LET child == Append(parent, Head(cl))
                 t2 == IF child \notin DOMAIN t1
                       THEN SetChild(t1, child, NewNode(Head(cl)))
                       ELSE t1
             IN  add_clades(t2, child, Tail(cl), count)

Range(s) == {s[i] : i \in DOMAIN s}

EmptyTree == [p \in {<<>>} |-> NewNode(START)]

\* node.children.keys() of the node at path p
ChildKeys(t, p) == {q[Len(q)] : q \in {r \in DOMAIN t : Len(r) = Len(p) + 1
                                        /\ SubSeq(r, 1, Len(p)) = p}}

IsEnd(t, p) == t[p].class = "EndNode"

(***************************************************************************)
(* The script: read the records, build the diagram, partition, draw.       *)
(***************************************************************************)
Idle ==
    /\ err = ""
    /\ stack = <<>> /\ calls = <<>> /\ tiers = <<>>
    /\ styles = <<>> /\ content = <<>> /\ ring_count = 0
    /\ all_clades = <<>> /\ clade_coords = <<>> /\ tried = 0 /\ occupied = <<>>
    /\ template = <<>> /\ out_file = <<>>

Init ==
    /\ tree = EmptyTree
    /\ clades = {}
    /\ records = <<>>
    /\ pc = "read"
    /\ Idle

\* tree.add(taxonomy.split(';'), int(count))
Add(taxonomy, count) ==
    /\ pc = "read"
    /\ Len(records) < MaxRecords
    /\ tree' = add_clades(tree, <<>>, taxonomy, count)
    /\ clades' = clades \cup Range(taxonomy)
    /\ records' = Append(records, <<taxonomy, count>>)
    /\ UNCHANGED <<pc, err, ringVars, labelVars, svgVars, ring_count>>

\* Tree.add called any number of times, nothing else
NextTree == \E taxonomy \in Paths, count \in Weights : Add(taxonomy, count)

SpecTree == Init /\ [][NextTree]_vars

\* the code point of a one-character key, the order sorted() uses
Ord(k) == CASE k = "$" -> 36 [] k = "^" -> 94 [] k = "a" -> 97 [] k = "b" -> 98

\* sorted(keys): ascending by code point
RECURSIVE Sorted(_)
Sorted(S) ==
    IF S = {} THEN <<>>
    ELSE LET m == CHOOSE x \in S : \A y \in S : Ord(x) <= Ord(y)
         IN  <<m>> \o Sorted(S \ {m})

(***************************************************************************)
(* Exact rational arithmetic for the angular sizes and offsets.            *)
(***************************************************************************)
Abs(n) == IF n < 0 THEN 0 - n ELSE n

RECURSIVE Gcd(_, _)
Gcd(a, b) == IF b = 0 THEN a ELSE Gcd(b, a % b)

Norm(n, d) ==
    LET g == Gcd(Abs(n), Abs(d))
        s == IF d < 0 THEN 0 - 1 ELSE 1
    IN  IF n = 0 THEN <<0, 1>> ELSE <<(s * n) \div g, (s * d) \div g>>

Zero == <<0, 1>>
One == <<1, 1>>

RAdd(x, y) == Norm(x[1] * y[2] + y[1] * x[2], x[2] * y[2])

\* node_size * child.count / node_count, for node_count /= 0
ChildSize(node_size, child_count, node_count) ==
    Norm(node_size[1] * child_count, node_size[2] * node_count)

(***************************************************************************)
(* CircleDiagram.__init__                                                  *)
(***************************************************************************)
\* _colour_for_clade: the colour of hue clade_index / clade_count, as text
ColourForClade(cl, i) == <<"hue", ToString(i - 1), "/", ToString(Len(cl))>>

\* Svg.add_styles: selector{key:value;...}
StyleText(selector, decls) == selector \o <<"{">> \o decls \o <<"}">>

\* svg.add_styles('.' + clade, {'fill': ..., 'stroke': LINE_COLOUR})
CladeStyle(cl, i) ==
    StyleText(<<".", cl[i]>>,
              <<"fill:">> \o ColourForClade(cl, i) \o <<";", "stroke:white;">>)

\* svg.add_styles('text', {'fill': ..., 'font-family': ..., 'font-size': ...})
TextStyle ==
    StyleText(<<"text">>,
              <<"fill:#555555;", "font-family:Helvetica;", "font-size:10px;">>)

\* svg = Svg(size, size); diagram = CircleDiagram(svg, sorted(tree.clades))
MakeDiagram ==
    /\ pc = "read"
    /\ LET cl == Sorted(clades)
       IN  styles' = [i \in 1 .. Len(cl) |-> CladeStyle(cl, i)] \o <<TextStyle>>
    /\ pc' = "rings"
    /\ UNCHANGED <<treeVars, err, ringVars, labelVars, content, ring_count,
                   template, out_file>>

(***************************************************************************)
(* Rings                                                                   *)
(***************************************************************************)
\* one invocation _dfs(node, depth, node_size, offset) with its locals
Frame(t, node, depth, node_size, offset) ==
    [node |-> node, depth |-> depth, size |-> node_size, offset |-> offset,
     keys |-> Sorted(ChildKeys(t, node)), child_offset |-> offset,
     child_size |-> Zero]

Call(node, depth, node_size, offset) ==
    [node |-> node, depth |-> depth, size |-> node_size, offset |-> offset]

Top == stack[Len(stack)]

\* rings = Rings(tree): self.tiers = {}; self._dfs(tree.root, 0, 1, 0)
RingsInit ==
    /\ pc = "rings"
    /\ stack' = <<Frame(tree, <<>>, 0, One, Zero)>>
    /\ calls' = <<Call(<<>>, 0, One, Zero)>>
    /\ tiers' = <<>>
    /\ pc' = "dfs"
    /\ UNCHANGED <<treeVars, err, labelVars, svgVars, ring_count>>

\* the loop body of _dfs up to the recursive call
DfsChild ==
    /\ pc = "dfs"
    /\ Top.keys /= <<>>
    /\ LET f == Top
           child == Append(f.node, Head(f.keys))
       IN  \/ /\ tree[f.node].count = 0
              /\ pc' = "error"
              /\ err' = "ZeroDivisionError"
              /\ UNCHANGED <<stack, calls>>
           \/ /\ tree[f.node].count /= 0
              /\ LET child_size == ChildSize(f.size, tree[child].count,
                                             tree[f.node].count)
                     g == [f EXCEPT !.keys = Tail(@), !.child_size = child_size]
                 IN  /\ stack' = [stack EXCEPT ![Len(stack)] = g]
                                   \o <<Frame(tree, child, f.depth + 1,
                                              child_size, f.child_offset)>>
                     /\ calls' = Append(calls, Call(child, f.depth + 1,
                                                    child_size, f.child_offset))
              /\ UNCHANGED <<pc, err>>
    /\ UNCHANGED <<treeVars, tiers, labelVars, svgVars, ring_count>>

\* _on_node of an EndNode returns at once; back in the caller,
\* child_offset += child_size
DfsReturnEnd ==
    /\ pc = "dfs"
    /\ Top.keys = <<>>
    /\ IsEnd(tree, Top.node)
    /\ LET below == SubSeq(stack, 1, Len(stack) - 1)
           f == below[Len(below)]
       IN  stack' = [below EXCEPT ![Len(below)] =
                        [f EXCEPT !.child_offset = RAdd(f.child_offset, f.child_size)]]
    /\ UNCHANGED <<treeVars, pc, err, calls, tiers, labelVars, svgVars, ring_count>>

\* _on_node of a Node: the tier list is created, then node.letter is read,
\* an attribute no Node has
DfsOnNode ==
    /\ pc = "dfs"
    /\ Top.keys = <<>>
    /\ ~IsEnd(tree, Top.node)
    /\ tiers' = IF Top.depth \in DOMAIN tiers THEN tiers
                ELSE [d \in DOMAIN tiers \cup {Top.depth} |->
                         IF d \in DOMAIN tiers THEN tiers[d] ELSE <<>>]
    /\ pc' = "error"
    /\ err' = "AttributeError"
    /\ UNCHANGED <<treeVars, stack, calls, labelVars, svgVars, ring_count>>

Next ==
    \/ \E taxonomy \in Paths, count \in Weights : Add(taxonomy, count)
    \/ MakeDiagram
    \/ RingsInit
    \/ DfsChild
    \/ DfsReturnEnd
    \/ DfsOnNode

Spec == Init /\ [][Next]_vars

(***************************************************************************)
(* CircleDiagram._draw_clades, called on its own with one ring.            *)
(* The anchor _calc_coords computes with sin and cos is given with each    *)
(* entry, as a point of an integer grid.                                   *)
(***************************************************************************)
MaxParts == 3
MaxAngle == 1

SCALE == 1
LETTER_SPACING == 10 * SCALE

Points == {<<0, 0>>, <<6, 0>>, <<6, 8>>}

Entries == [clade : Labels, start_angle : {0}, end_angle : 0 .. MaxAngle,
            at : Points]

Upper(c) == CASE c = "a" -> "A" [] c = "b" -> "B" [] OTHER -> c

\* Svg.add_text
TextElement(text, x, y) ==
    <<"<text x=", ToString(x), " y=", ToString(y), ">", text, "</text>">>

\* lines 174-179: (clade, end_angle - start_angle, x - 4 * SCALE, y + 4 * SCALE)
Coord(e) ==
    [clade |-> e.clade, size |-> e.end_angle - e.start_angle,
     x |-> e.at[1] - 4 * SCALE, y |-> e.at[2] + 4 * SCALE]

\* list.sort(key = size, reverse = True): stable, largest first
RECURSIVE SortBySize(_)
SortBySize(s) ==
    IF s = <<>> THEN <<>>
    ELSE LET rest == SortBySize(SubSeq(s, 1, Len(s) - 1))
             e == s[Len(s)]
             k == Cardinality({j \in 1 .. Len(rest) : rest[j].size >= e.size})
         IN  SubSeq(rest, 1, k) \o <<e>> \o SubSeq(rest, k + 1, Len(rest))

Dist2(ox, oy, x, y) == (ox - x) * (ox - x) + (oy - y) * (oy - y)

is_room_last(occ, x, y) ==
    occ /= <<>> =>
        ~(Dist2(occ[Len(occ)][1], occ[Len(occ)][2], x, y)
            < LETTER_SPACING * LETTER_SPACING)

is_room(occ, x, y) ==
    \A i \in DOMAIN occ :
        ~(Dist2(occ[i][1], occ[i][2], x, y) < LETTER_SPACING * LETTER_SPACING)

InitDraw ==
    /\ tree = EmptyTree /\ clades = {} /\ records = <<>>
    /\ pc = "draw"
    /\ err = ""
    /\ stack = <<>> /\ calls = <<>> /\ tiers = <<>>
    /\ styles = <<>> /\ content = <<>> /\ ring_count = 0
    /\ all_clades \in SeqsUpTo(Entries, MaxParts)
    /\ clade_coords = <<>> /\ tried = 0 /\ occupied = <<>>
    /\ template = <<>> /\ out_file = <<>>

\* lines 172-183
DrawCladesBegin ==
    /\ pc = "draw"
    /\ clade_coords' = SortBySize([i \in DOMAIN all_clades |-> Coord(all_clades[i])])
    /\ occupied' = <<>>
    /\ tried' = 0
    /\ pc' = "place"
    /\ UNCHANGED <<treeVars, err, ringVars, svgVars, ring_count, all_clades>>

\* one iteration of the loop of lines 193-196
PlaceLabel ==
    /\ pc = "place"
    /\ tried < Len(clade_coords)
    /\ LET c == clade_coords[tried + 1]
       IN  \/ /\ is_room(occupied, c.x, c.y)
              /\ content' = Append(content, TextElement(Upper(c.clade), c.x, c.y))
              /\ occupied' = Append(occupied, <<c.x, c.y>>)
           \/ /\ ~is_room(occupied, c.x, c.y)
              /\ UNCHANGED <<content, occupied>>
    /\ tried' = tried + 1
    /\ UNCHANGED <<treeVars, pc, err, ringVars, styles, template, out_file,
                   ring_count, all_clades, clade_coords>>

DrawCladesEnd ==
    /\ pc = "place"
    /\ tried = Len(clade_coords)
    /\ pc' = "drawn"
    /\ UNCHANGED <<treeVars, err, ringVars, svgVars, ring_count, labelVars>>

NextDraw ==
    \/ DrawCladesBegin
    \/ PlaceLabel
    \/ DrawCladesEnd

SpecDraw == InitDraw /\ [][NextDraw]_vars

(***************************************************************************)
(* Svg: accumulation and save.  Text is a sequence of tokens; the two      *)
(* placeholders are tokens of the template.                                *)
(***************************************************************************)
MaxTemplateLen == 4
MaxItems == 2

Tokens == {"<svg>", "</svg>", "%style%", "%substance%"}

\* Svg.add_path
PathElement(d, clazz) == <<"<path d=", d, " class=", clazz, "/>">>

RECURSIVE Flatten(_)
Flatten(ss) == IF ss = <<>> THEN <<>> ELSE Head(ss) \o Flatten(Tail(ss))

\* str.split(sep): the pieces between the occurrences of sep
RECURSIVE Split(_, _)
Split(s, sep) ==
    IF \A i \in DOMAIN s : s[i] /= sep THEN <<s>>
    ELSE LET i == CHOOSE k \in DOMAIN s :
                      s[k] = sep /\ \A j \in 1 .. (k - 1) : s[j] /= sep
         IN  <<SubSeq(s, 1, i - 1)>> \o Split(SubSeq(s, i + 1, Len(s)), sep)

InitSave ==
    /\ tree = EmptyTree /\ clades = {} /\ records = <<>>
    /\ pc = "svg"
    /\ err = ""
    /\ stack = <<>> /\ calls = <<>> /\ tiers = <<>>
    /\ styles = <<>> /\ content = <<>> /\ ring_count = 0
    /\ all_clades = <<>> /\ clade_coords = <<>> /\ tried = 0 /\ occupied = <<>>
    /\ template \in SeqsUpTo(Tokens, MaxTemplateLen)
    /\ out_file = <<>>

AddStyles(selector, decls) ==
    /\ pc = "svg"
    /\ Len(styles) < MaxItems
    /\ styles' = Append(styles, StyleText(selector, decls))
    /\ UNCHANGED <<treeVars, pc, err, ringVars, labelVars, content, template,
                   out_file, ring_count>>

AddText(text, x, y) ==
    /\ pc = "svg"
    /\ Len(content) < MaxItems
    /\ content' = Append(content, TextElement(text, x, y))
    /\ UNCHANGED <<treeVars, pc, err, ringVars, labelVars, styles, template,
                   out_file, ring_count>>

AddPath(d, clazz) ==
    /\ pc = "svg"
    /\ Len(content) < MaxItems
    /\ content' = Append(content, PathElement(d, clazz))
    /\ UNCHANGED <<treeVars, pc, err, ringVars, labelVars, styles, template,
                   out_file, ring_count>>

WrittenContentFirst(part1, part2, part3) ==
    part1 \o Flatten(content) \o part2 \o Flatten(styles) \o part3

\* what the writes of lines 124-130 put into the file
Written(part1, part2, part3) ==
    part1 \o Flatten(styles) \o part2 \o Flatten(content) \o part3

SvgSave ==
    /\ pc = "svg"
    /\ LET a == Split(template, "%style%")
       IN  IF Len(a) /= 2
           THEN /\ pc' = "error" /\ err' = "ValueError" /\ UNCHANGED out_file
           ELSE LET b == Split(a[2], "%substance%")
                IN  IF Len(b) /= 2
                    THEN /\ pc' = "error" /\ err' = "ValueError"
                         /\ UNCHANGED out_file
                    ELSE /\ out_file' = Written(a[1], b[1], b[2])
                         /\ pc' = "saved"
                         /\ UNCHANGED err
    /\ UNCHANGED <<treeVars, ringVars, labelVars, styles, content, template,
                   ring_count>>

NextSave ==
    \/ \E sel \in {<<".", "a">>, <<"text">>} : AddStyles(sel, <<"fill:#555555;">>)
    \/ \E text \in {"A"} : AddText(text, 2, 4)
    \/ \E clazz \in {"a"} : AddPath("M0 0 Z", clazz)
    \/ SvgSave

SpecSave == InitSave /\ [][NextSave]_vars

(***************************************************************************)
(* Properties of the tree (SpecTree).                                       *)
(***************************************************************************)
RECURSIVE SumOver(_, _)
SumOver(S, f) ==
    IF S = {} THEN 0
    ELSE LET x == CHOOSE y \in S : TRUE IN f[x] + SumOver(S \ {x}, f)

Total(recs) == SumOver(DOMAIN recs, [i \in DOMAIN recs |-> recs[i][2]])

\* the weight of the records whose path ends exactly at node p
Terminating(p) ==
    SumOver({i \in DOMAIN records : records[i][1] = p},
            [i \in DOMAIN records |-> records[i][2]])

Children(t, p) == {Append(p, k) : k \in ChildKeys(t, p)}

ChildrenWeight(t, S) == SumOver(S, [q \in S |-> t[q].count])

NodePaths(t) == {p \in DOMAIN t : ~IsEnd(t, p)}

\* C1 as stated: every node's weight is the sum of the weights of all its
\* children, the end-marker child included, plus the weight of the records
\* that terminate exactly at the node.
C1_WeightWithEndMarker ==
    \A p \in NodePaths(tree) :
        tree[p].count = ChildrenWeight(tree, Children(tree, p)) + Terminating(p)

\* C1 as amended: every node's weight is the sum of the weights of its
\* children other than the end-marker, plus the weight of the records that
\* terminate exactly at the node.
C1_WeightWithoutEndMarker ==
    \A p \in NodePaths(tree) :
        tree[p].count =
            ChildrenWeight(tree, Children(tree, p) \cap NodePaths(tree))
            + Terminating(p)

C1_Witness ==
    /\ Len(records) = MaxRecords
    /\ \E p \in NodePaths(tree) :
        /\ p /= <<>>
        /\ Append(p, END) \in DOMAIN tree
        /\ Children(tree, p) \cap NodePaths(tree) /= {}
        /\ Terminating(p) > 1

\* C2: the root's weight is the sum of the weights of the records added so
\* far, 0 before the first add.
C2_RootWeightIsTotal == tree[<<>>].count = Total(records)

C2_Witness ==
    /\ Len(records) = MaxRecords
    /\ \E i, j \in DOMAIN records :
        i /= j /\ records[i][1] = <<>> /\ records[j][1] /= <<>>
    /\ tree[<<>>].count > 1

(***************************************************************************)
(* Properties of the partition (Spec).                                     *)
(***************************************************************************)
Positive(recs) == \A i \in DOMAIN recs : recs[i][2] > 0

NonNegative(recs) == \A i \in DOMAIN recs : recs[i][2] >= 0

Terminated == pc \in {"error", "done"}

\* the position in calls of the _dfs invocation on node p, 0 if there is none
CallIndex(p) ==
    IF \E i \in DOMAIN calls : calls[i].node = p
    THEN CHOOSE i \in DOMAIN calls : calls[i].node = p
    ELSE 0

Assigned(p) == CallIndex(p) /= 0

CallOf(p) == calls[CallIndex(p)]

\* every child of p has been given its interval
Partitioned(p) ==
    /\ Assigned(p)
    /\ ChildKeys(tree, p) /= {}
    /\ \A q \in Children(tree, p) : Assigned(q)

RECURSIVE RSum(_)
RSum(sizes) == IF sizes = <<>> THEN Zero ELSE RAdd(Head(sizes), RSum(Tail(sizes)))

\* C3 as stated: with positive weights, the intervals _dfs gives the
\* children of a node are in ascending label order, each starts where the
\* previous one ends, the first at the parent's offset, and their sizes
\* sum to the parent's size.
C3_ChildrenCoverParent ==
    Positive(records) =>
        \A p \in DOMAIN tree :
            Partitioned(p) =>
                LET ks == Sorted(ChildKeys(tree, p))
                    c == [i \in DOMAIN ks |-> CallOf(Append(p, ks[i]))]
                IN  /\ c[1].offset = CallOf(p).offset
                    /\ \A i \in 1 .. (Len(ks) - 1) :
                        /\ CallIndex(Append(p, ks[i])) < CallIndex(Append(p, ks[i + 1]))
                        /\ c[i + 1].offset = RAdd(c[i].offset, c[i].size)
                    /\ RSum([i \in DOMAIN ks |-> c[i].size]) = CallOf(p).size

\* C8 as stated: an end-marker child is given angular size 0 and does not
\* advance the sibling cursor, so the first other child starts at the
\* node's own offset; the other children get size * c.weight / W; no ring
\* list holds an entry for an end-marker.
C8_EndMarkerTakesNoShare ==
    \A i \in DOMAIN calls :
        LET c == calls[i]
            p == SubSeq(c.node, 1, Len(c.node) - 1)
        IN  c.node /= <<>> =>
              IF IsEnd(tree, c.node)
              THEN c.size = Zero
              ELSE /\ c.size = ChildSize(CallOf(p).size, tree[c.node].count,
                                         tree[p].count)
                   /\ (\A k \in ChildKeys(tree, p) :
                          Ord(k) < Ord(c.node[Len(c.node)]) => k = END)
                      => c.offset = CallOf(p).offset

\* C9 as stated: with non-negative weights no node has weight 0 while a
\* child of it has a nonzero weight, the partitioner never divides by a
\* zero weight, and it runs to completion.
C9_ZeroWeightIsNoError ==
    NonNegative(records) =>
        /\ \A p \in DOMAIN tree :
              tree[p].count = 0 => \A q \in Children(tree, p) : tree[q].count = 0
        /\ err /= "ZeroDivisionError"
        /\ Terminated => pc = "done"

(***************************************************************************)
(* Properties of the whole run (Spec).                                     *)
(***************************************************************************)
MaxOf(S) == CHOOSE x \in S : \A y \in S : y <= x

\* the depth of the deepest node that is not an end-marker
Depth(t) == MaxOf({Len(p) : p \in NodePaths(t)})

NodesAt(t, d) == {p \in NodePaths(t) : Len(p) = d}

\* the partition ran to its end and left one entry per node in the tier of
\* the node's depth
RingsYielded ==
    /\ err = ""
    /\ \A d \in 0 .. Depth(tree) :
        d \in DOMAIN tiers /\ Len(tiers[d]) = Cardinality(NodesAt(tree, d))

RECURSIVE TreeOf(_)
TreeOf(recs) ==
    IF recs = <<>> THEN EmptyTree
    ELSE LET r == recs[Len(recs)]
         IN  add_clades(TreeOf(SubSeq(recs, 1, Len(recs) - 1)), <<>>, r[1], r[2])

\* C4 as stated: the records added in any other order, then partitioned,
\* yield the same ring entries: the partition yields its ring entries, and
\* every order of the records builds the tree they are computed from.
C4_SameRingsInAnyOrder ==
    (Terminated /\ Positive(records)) =>
        /\ RingsYielded
        /\ \A f \in Permutations(DOMAIN records) :
              TreeOf([i \in DOMAIN records |-> records[f[i]]]) = tree

\* C6 as stated: with no record added the run completes without an error,
\* the ring mapping is empty, and the document holds no content and no
\* style rule but the base text style.
C6_EmptyInputCompletes ==
    records = <<>> =>
        /\ err = ""
        /\ Terminated => pc = "done"
        /\ \A d \in DOMAIN tiers : d = 0 \/ tiers[d] = <<>>
        /\ content = <<>>
        /\ styles \in {<<>>, <<TextStyle>>}

\* C10 as stated: for a tree of depth D >= 1 the tiers 1 .. D go to add_ring
\* in increasing depth order, the k-th call drawing the entries of the
\* nodes at depth k, so the run ends with D rings drawn.
C10_RingsInDepthOrder ==
    (Terminated /\ Positive(records) /\ Depth(tree) >= 1) =>
        /\ ring_count = Depth(tree)
        /\ \A k \in 1 .. Depth(tree) :
              k \in DOMAIN tiers /\ Len(tiers[k]) = Cardinality(NodesAt(tree, k))

(***************************************************************************)
(* Properties of the label placement (SpecDraw).                           *)
(***************************************************************************)
Far(c, d) == Dist2(c.x, c.y, d.x, d.y) >= LETTER_SPACING * LETTER_SPACING

\* candidate k of the sorted list gets a label: it is far enough from every
\* earlier candidate that got one
RECURSIVE Labelled(_)
Labelled(k) ==
    \A j \in 1 .. (k - 1) : Labelled(j) => Far(clade_coords[j], clade_coords[k])

RECURSIVE Pick(_, _)
Pick(s, keep) ==
    IF s = <<>> THEN <<>>
    ELSE Pick(SubSeq(s, 1, Len(s) - 1), keep)
         \o (IF Len(s) \in keep THEN <<s[Len(s)]>> ELSE <<>>)

SameBag(s, t) ==
    /\ Len(s) = Len(t)
    /\ \A e \in Range(s) \cup Range(t) :
        Cardinality({i \in DOMAIN s : s[i] = e})
            = Cardinality({i \in DOMAIN t : t[i] = e})

\* C5: any two anchors in occupied are at squared distance
\* >= LETTER_SPACING^2; the candidates are those of the ring, tried largest
\* angular size first; the labels emitted are those of the accepted
\* candidates, in order, and a rejected candidate adds neither a label nor
\* an anchor.
C5_LabelsDoNotOverlap ==
    /\ \A i, j \in DOMAIN occupied :
          i /= j => Dist2(occupied[i][1], occupied[i][2],
                          occupied[j][1], occupied[j][2])
                        >= LETTER_SPACING * LETTER_SPACING
    /\ pc \in {"place", "drawn"} =>
          /\ SameBag(clade_coords, [i \in DOMAIN all_clades |-> Coord(all_clades[i])])
          /\ \A i, j \in DOMAIN clade_coords :
                i < j => clade_coords[i].size >= clade_coords[j].size
          /\ LET got == Pick(clade_coords, {k \in 1 .. tried : Labelled(k)})
             IN  /\ occupied = [i \in DOMAIN got |-> <<got[i].x, got[i].y>>]
                 /\ content = [i \in DOMAIN got |->
                                 TextElement(Upper(got[i].clade), got[i].x, got[i].y)]

C5_Witness ==
    /\ pc = "drawn"
    /\ Len(clade_coords) = MaxParts
    /\ Len(occupied) = 2
    /\ Dist2(occupied[1][1], occupied[1][2], occupied[2][1], occupied[2][2])
          = LETTER_SPACING * LETTER_SPACING
    /\ \E k \in DOMAIN clade_coords :
          /\ <<clade_coords[k].x, clade_coords[k].y>> \notin Range(occupied)
          /\ clade_coords[k].size > 0

(***************************************************************************)
(* Properties of Svg.save (SpecSave).                                      *)
(***************************************************************************)
Occurrences(s, tok) == Cardinality({i \in DOMAIN s : s[i] = tok})

\* the template with each placeholder token replaced, token by token
RECURSIVE Substituted(_)
Substituted(tpl) ==
    IF tpl = <<>> THEN <<>>
    ELSE (CASE Head(tpl) = "%style%" -> Flatten(styles)
            [] Head(tpl) = "%substance%" -> Flatten(content)
            [] OTHER -> <<Head(tpl)>>)
         \o Substituted(Tail(tpl))

StyleBeforeContent ==
    \E i, j \in DOMAIN template :
        i < j /\ template[i] = "%style%" /\ template[j] = "%substance%"

\* C7: save on a template without the style placeholder or without the
\* content placeholder ends in an error and writes nothing; on a template
\* with exactly one of each, style first, it writes the template with the
\* style rules and the content substituted in the order they were added.
C7_SaveNeedsBothPlaceholders ==
    /\ pc = "svg" => out_file = <<>>
    /\ pc = "error" => out_file = <<>> /\ err = "ValueError"
    /\ (pc /= "svg" /\ (Occurrences(template, "%style%") = 0
                        \/ Occurrences(template, "%substance%") = 0))
          => pc = "error"
    /\ (pc /= "svg" /\ Occurrences(template, "%style%") = 1
                    /\ Occurrences(template, "%substance%") = 1
                    /\ StyleBeforeContent)
          => pc = "saved" /\ err = "" /\ out_file = Substituted(template)

C7_Witness ==
    /\ pc = "error"
    /\ Occurrences(template, "%style%") = 1
    /\ Occurrences(template, "%substance%") = 0
    /\ template[1] = "<svg>"
    /\ Len(styles) = MaxItems
    /\ Len(content) = MaxItems
    /\ out_file = <<>>

====
